---- MODULE Spec2Model ----
(***************************************************************************)
(* Model of textEditorExample.py / qtStylingPyside.py:                     *)
(*   - WindowSettings: persistence of window geometry and of an opaque     *)
(*     window state in a QSettings store (specification Spec);             *)
(*   - several WindowSettings keys on the stores (specification            *)
(*     SharedSpec);                                                        *)
(*   - MainWindow's recent-files list (specification EditorSpec) and its   *)
(*     document: typing, saving, closing (specification CloseSpec);        *)
(*   - ControllerWidget and its demo widget: global style and progress     *)
(*     bar (specification StyleSpec).                                      *)
(* The pickle calls follow Python 2 semantics, the dialect the sources are *)
(* written in: QByteArray('(dp0\n.)') is protocol 0 of the empty dict,     *)
(* followed by one byte that the unpickler never reads.                    *)
(***************************************************************************)
EXTENDS Integers, Sequences, FiniteSets, TLC

\* ------------------------------------------------------------------ bounds

\* Values a host window keeps under its one state key range over 1..MaxStateVal.
MaxStateVal == 1

\* Files named 1..NumNames in one directory (one more path: a second directory).
NumNames == 4

\* Successful opens in one run of the editor.
MaxOpens == 5

\* Strokes the user types into the text edit.
MaxTextLen == 3

\* Clicks on the Apply button of the style controller.
MaxApplies == 3

\* ------------------------------------------------ WindowSettings instances

\* Three WindowSettings objects: 1 and 2 are two versions of the same company
\* and tool, 3 is the same version as 1 of another tool.
Instances == {1, 2, 3}

companyName(i) == "XYZ-Company"

toolName(i) == IF i = 3 THEN "OtherTool" ELSE "TextEditExample"

toolVersion(i) == IF i = 2 THEN "0.0.2" ELSE "0.0.1"

\* QSettings(companyName, toolName): the store file an instance opens.
App(i) == <<companyName(i), toolName(i)>>

Apps == {App(i) : i \in Instances}

\* ---------------------------------------------------------------- geometry

DefaultSize == <<400, 200>>

\* Mutant: the default position left at QPoint().
DefaultPosOrigin == <<0, 0>>

DefaultPos == <<200, 200>>

Sizes == {DefaultSize, <<640, 480>>}

Positions == {DefaultPos, <<0, 0>>}

\* ------------------------------------------------------------ opaque state

StateKeys == {1}

StateVals == 1 .. MaxStateVal

\* The dicts a saveState() hook may return: functions on a subset of StateKeys.
StateValues == UNION {[D -> StateVals] : D \in SUBSET StateKeys}

EmptyState == [k \in {} |-> 0]

\* What one call of the host window's saveState() hook does.
SaveOutcomes ==
    [kind : {"value"}, v : StateValues]
        \cup {[kind |-> "unpicklable", v |-> EmptyState],
              [kind |-> "raise", v |-> EmptyState]}

NoSave == [kind |-> "none", v |-> EmptyState]

\* ------------------------------------------------------------------ pickle
\* A blob is a sequence of protocol-0 opcodes, each <<opcode, argument>>.

MARK == <<"(", 0>>

DICT == <<"d", 0>>

PUT == <<"p", 0>>

INT(n) == <<"I", n>>

SETITEM == <<"s", 0>>

STOP == <<".", 0>>

TUPLE == <<")", 0>>

RECURSIVE DumpItems(_, _)
DumpItems(d, keys) ==
    IF keys = {} THEN << >>
    ELSE LET k == CHOOSE x \in keys : \A y \in keys : x <= y
         IN <<INT(k), INT(d[k]), SETITEM>> \o DumpItems(d, keys \ {k})

\* pickle.dumps of a dict of ints: '(dp0\n' , 'I<k>\nI<v>\ns' per item, '.'
dumps(d) == <<MARK, DICT, PUT>> \o DumpItems(d, DOMAIN d) \o <<STOP>>

LoadFail == [ok |-> FALSE, value |-> EmptyState]

RECURSIVE LoadItems(_, _, _)
LoadItems(b, i, d) ==
    IF i > Len(b) THEN LoadFail
    ELSE IF b[i] = STOP THEN [ok |-> TRUE, value |-> d]
    ELSE IF /\ i + 2 <= Len(b)
            /\ b[i][1] = "I" /\ b[i + 1][1] = "I" /\ b[i + 2] = SETITEM
         THEN LoadItems(b, i + 3,
                        [k \in (DOMAIN d) \cup {b[i][2]} |->
                            IF k = b[i][2] THEN b[i + 1][2] ELSE d[k]])
    ELSE LoadFail

\* pickle.loads: reads up to the first STOP, what follows is never read.
loads(b) ==
    IF Len(b) >= 3 /\ b[1] = MARK /\ b[2] = DICT /\ b[3] = PUT
    THEN LoadItems(b, 4, EmptyState)
    ELSE LoadFail

\* QByteArray('(dp0\n.)'), the default of settings.value("state", ...).
DefaultBlob == <<MARK, DICT, PUT, STOP, TUPLE>>

\* Blobs an external edit of the store can leave: empty, truncated, garbage.
CorruptBlobs == {<< >>, <<MARK, DICT>>, <<TUPLE, STOP>>}

\* --------------------------------------------------------------- QSettings
\* A store file maps key paths to values; beginGroup prefixes the path.

SizePath(i) == <<toolVersion(i), "size">>

PosPath(i) == <<toolVersion(i), "pos">>

StatePath(i) == <<toolVersion(i), "widgetState", "state">>

EmptySettings == [p \in {} |-> 0]

value(s, path, default) == IF path \in DOMAIN s THEN s[path] ELSE default

setValue(s, path, v) ==
    [p \in (DOMAIN s) \cup {path} |-> IF p = path THEN v ELSE s[p]]

\* ------------------------------------------------------------------- state

VARIABLES
    store,      \* App -> the key paths and values of its QSettings file
    win,        \* instance -> its host window: size, pos, closed
    hooks,      \* instance -> which of saveState/restoreState its window has
    last,       \* the operation that ran last, and what it did
    hist,       \* instance -> what was last written/cleared under its key
    filePath,   \* MainWindow._filePath
    recentFiles,        \* MainWindow._recentFiles
    recentFileActions,  \* MainWindow.recentFileActions
    text,       \* contents of the QPlainTextEdit
    opened,     \* every path opened with success, oldest first
    modified,   \* self.text.document().isModified()
    ui,         \* the MainWindow handler that ran last, and what it did
    app,        \* QApplication: the global style sheet and palette
    demo,       \* ControllerWidget._demoWidget: its class, style, progress bar
    click,      \* the ControllerWidget button or timer that acted last
    applies     \* number of Apply clicks so far

settingsVars == <<store, win, hooks, last, hist>>

editorVars == <<filePath, recentFiles, recentFileActions, text, opened,
                modified, ui>>

styleVars == <<app, demo, click, applies>>

vars == <<store, win, hooks, last, hist,
          filePath, recentFiles, recentFileActions, text, opened, modified, ui,
          app, demo, click, applies>>

\* ---------------------------------------------------------- WindowSettings

NoOp == [op |-> "none", inst |-> 0, ret |-> "none", raised |-> FALSE,
         events |-> << >>, calls |-> << >>, hookFailed |-> FALSE,
         saved |-> NoSave]

Bool(b) == IF b THEN "true" ELSE "false"

\* Mutant: the window is moved to the value stored under "size".
ReadEffectMoveSlip(s, i, hasRestore, hookRaises) ==
    LET string == value(s, StatePath(i), DefaultBlob)
        tried == hasRestore /\ string # << >>
        state == loads(string)
        called == tried /\ state.ok
        errors == tried /\ (~state.ok \/ hookRaises)
    IN [size |-> value(s, SizePath(i), DefaultSize),
        pos |-> value(s, SizePath(i), DefaultPos),
        calls |-> IF called THEN <<state.value>> ELSE << >>,
        hookFailed |-> called /\ hookRaises,
        ret |-> ~errors]

\* Mutant: errors are caught but not recorded.
ReadEffectSwallow(s, i, hasRestore, hookRaises) ==
    LET string == value(s, StatePath(i), DefaultBlob)
        tried == hasRestore /\ string # << >>
        state == loads(string)
        called == tried /\ state.ok
    IN [size |-> value(s, SizePath(i), DefaultSize),
        pos |-> value(s, PosPath(i), DefaultPos),
        calls |-> IF called THEN <<state.value>> ELSE << >>,
        hookFailed |-> called /\ hookRaises,
        ret |-> TRUE]

\* Mutant: "state" is read in the version group, not in widgetState.
ReadEffectWrongGroup(s, i, hasRestore, hookRaises) ==
    LET string == value(s, <<toolVersion(i), "state">>, DefaultBlob)
        tried == hasRestore /\ string # << >>
        state == loads(string)
        called == tried /\ state.ok
        errors == tried /\ (~state.ok \/ hookRaises)
    IN [size |-> value(s, SizePath(i), DefaultSize),
        pos |-> value(s, PosPath(i), DefaultPos),
        calls |-> IF called THEN <<state.value>> ELSE << >>,
        hookFailed |-> called /\ hookRaises,
        ret |-> ~errors]

\* readSettings on store file s for instance i; hookRaises: restoreState raises
\* when called. calls: the arguments restoreState was called with.
ReadEffect(s, i, hasRestore, hookRaises) ==
    LET string == value(s, StatePath(i), DefaultBlob)
        tried == hasRestore /\ string # << >>
        state == loads(string)
        called == tried /\ state.ok
        errors == tried /\ (~state.ok \/ hookRaises)
    IN [size |-> value(s, SizePath(i), DefaultSize),
        pos |-> value(s, PosPath(i), DefaultPos),
        calls |-> IF called THEN <<state.value>> ELSE << >>,
        hookFailed |-> called /\ hookRaises,
        ret |-> ~errors]

\* Mutant: a failed serialization returns before anything is stored.
WriteEffectEarlyReturn(s, w, i, hasSave, sv) ==
    LET geom == setValue(setValue(s, SizePath(i), w.size), PosPath(i), w.pos)
        errors == hasSave /\ sv.kind # "value"
    IN [settings |-> IF errors THEN s
                     ELSE IF hasSave
                     THEN setValue(geom, StatePath(i), dumps(sv.v))
                     ELSE geom,
        saved |-> IF hasSave THEN sv ELSE NoSave,
        ret |-> ~errors]

\* Mutant: saveState is used without the hasattr test; a window without the
\* hook gets the empty state stored.
WriteEffectNoHasattr(s, w, i, hasSave, sv) ==
    LET geom == setValue(setValue(s, SizePath(i), w.size), PosPath(i), w.pos)
        errors == hasSave /\ sv.kind # "value"
    IN [settings |-> IF ~errors
                     THEN setValue(geom, StatePath(i),
                                   dumps(IF hasSave THEN sv.v ELSE EmptyState))
                     ELSE geom,
        saved |-> IF hasSave THEN sv ELSE NoSave,
        ret |-> ~errors]

\* Mutant: the position is stored under "size" as well.
WriteEffectPosSlip(s, w, i, hasSave, sv) ==
    LET geom == setValue(setValue(s, SizePath(i), w.pos), PosPath(i), w.pos)
        errors == hasSave /\ sv.kind # "value"
    IN [settings |-> IF hasSave /\ ~errors
                     THEN setValue(geom, StatePath(i), dumps(sv.v))
                     ELSE geom,
        saved |-> IF hasSave THEN sv ELSE NoSave,
        ret |-> ~errors]

\* writeSettings of window w for instance i; sv: what saveState() does.
WriteEffect(s, w, i, hasSave, sv) ==
    LET geom == setValue(setValue(s, SizePath(i), w.size), PosPath(i), w.pos)
        errors == hasSave /\ sv.kind # "value"
    IN [settings |-> IF hasSave /\ ~errors
                     THEN setValue(geom, StatePath(i), dumps(sv.v))
                     ELSE geom,
        saved |-> IF hasSave THEN sv ELSE NoSave,
        ret |-> ~errors]

\* Mutant: clear() removes nothing.
ClearEffectNothing(s) == s

\* Mutant: only the "size" entries are removed.
ClearEffectSizeOnly(s) == [p \in {q \in DOMAIN s : q[2] # "size"} |-> s[p]]

\* settings.clear() on QSettings(companyName, toolName)
ClearEffect(s) == EmptySettings

\* self.widget.close()
CloseWindow(w) == [w EXCEPT !.closed = TRUE]

HistWrite(h, w, r) ==
    [status |-> "written", size |-> w.size, pos |-> w.pos,
     ret |-> Bool(r.ret), saved |-> r.saved,
     tampered |-> IF r.ret /\ r.saved.kind = "value" THEN FALSE ELSE h.tampered]

HistFresh(status) ==
    [status |-> status, size |-> DefaultSize, pos |-> DefaultPos,
     ret |-> "none", saved |-> NoSave, tampered |-> FALSE]

\* After clearSettings by instance i: its own entry keeps what was written
\* before, marked cleared; a write under another key of the same store file
\* is no longer known to be there.
HistClear(i) ==
    [j \in Instances |->
        IF j = i THEN [hist[i] EXCEPT !.status = "cleared", !.tampered = FALSE]
        ELSE IF App(j) # App(i) THEN hist[j]
        ELSE IF hist[j].status = "written" THEN HistFresh("unknown")
        ELSE HistFresh(hist[j].status)]

readSettings(i) ==
    \E hookRaises \in BOOLEAN :
        LET r == ReadEffect(store[App(i)], i, hooks[i].restore, hookRaises)
        IN /\ win' = [win EXCEPT ![i].size = r.size, ![i].pos = r.pos]
           /\ last' = [NoOp EXCEPT !.op = "readSettings", !.inst = i,
                          !.ret = Bool(r.ret), !.events = <<"read">>,
                          !.calls = r.calls, !.hookFailed = r.hookFailed]
           /\ UNCHANGED <<store, hooks, hist>>
           /\ UNCHANGED <<editorVars, styleVars>>

writeSettings(i) ==
    \E sv \in SaveOutcomes :
        LET r == WriteEffect(store[App(i)], win[i], i, hooks[i].save, sv)
        IN /\ store' = [store EXCEPT ![App(i)] = r.settings]
           /\ hist' = [hist EXCEPT ![i] = HistWrite(hist[i], win[i], r)]
           /\ last' = [NoOp EXCEPT !.op = "writeSettings", !.inst = i,
                          !.ret = Bool(r.ret), !.events = <<"write">>,
                          !.saved = r.saved]
           /\ UNCHANGED <<win, hooks>>
           /\ UNCHANGED <<editorVars, styleVars>>

clearSettings(i) ==
    /\ store' = [store EXCEPT ![App(i)] = ClearEffect(store[App(i)])]
    /\ hist' = HistClear(i)
    /\ last' = [NoOp EXCEPT !.op = "clearSettings", !.inst = i,
                   !.events = <<"clear">>]
    /\ UNCHANGED <<win, hooks>>
    /\ UNCHANGED <<editorVars, styleVars>>

\* Mutant: save returns as soon as the write has failed, the window left open.
saveReturnOnFailure(i) ==
    \E sv \in SaveOutcomes :
        LET r == WriteEffect(store[App(i)], win[i], i, hooks[i].save, sv)
        IN /\ store' = [store EXCEPT ![App(i)] = r.settings]
           /\ hist' = [hist EXCEPT ![i] = HistWrite(hist[i], win[i], r)]
           /\ win' = [win EXCEPT ![i] = IF r.ret THEN CloseWindow(win[i])
                                        ELSE win[i]]
           /\ last' = [NoOp EXCEPT !.op = "save", !.inst = i,
                          !.ret = Bool(r.ret),
                          !.events = IF r.ret THEN <<"write", "close">>
                                     ELSE <<"write">>,
                          !.saved = r.saved]
           /\ UNCHANGED hooks
           /\ UNCHANGED <<editorVars, styleVars>>

\* WindowSettings.save: writeSettings, then widget.close(), return the result.

save(i) ==
    \E sv \in SaveOutcomes :
        LET r == WriteEffect(store[App(i)], win[i], i, hooks[i].save, sv)
        IN /\ store' = [store EXCEPT ![App(i)] = r.settings]
           /\ hist' = [hist EXCEPT ![i] = HistWrite(hist[i], win[i], r)]
           /\ win' = [win EXCEPT ![i] = CloseWindow(win[i])]
           /\ last' = [NoOp EXCEPT !.op = "save", !.inst = i,
                          !.ret = Bool(r.ret), !.events = <<"write", "close">>,
                          !.saved = r.saved]
           /\ UNCHANGED hooks
           /\ UNCHANGED <<editorVars, styleVars>>

\* WindowSettings.restore: widget.restoreState({}) is not guarded: a window
\* without the hook, or a hook that raises, ends the call there.
restore(i) ==
    \E hookRaises \in BOOLEAN :
        IF hooks[i].restore /\ ~hookRaises
        THEN /\ win' = [win EXCEPT ![i] = CloseWindow(win[i])]
             /\ store' = [store EXCEPT ![App(i)] = ClearEffect(store[App(i)])]
             /\ hist' = HistClear(i)
             /\ last' = [NoOp EXCEPT !.op = "restore", !.inst = i,
                            !.events = <<"restoreState", "close", "clear">>,
                            !.calls = <<EmptyState>>]
             /\ UNCHANGED hooks
             /\ UNCHANGED <<editorVars, styleVars>>
        ELSE /\ last' = [NoOp EXCEPT !.op = "restore", !.inst = i,
                            !.raised = TRUE, !.hookFailed = hooks[i].restore,
                            !.events = IF hooks[i].restore
                                       THEN <<"restoreState">> ELSE << >>,
                            !.calls = IF hooks[i].restore
                                      THEN <<EmptyState>> ELSE << >>]
             /\ UNCHANGED <<store, win, hooks, hist>>
             /\ UNCHANGED <<editorVars, styleVars>>

\* Mutant: cancel() closes the window and forgets to re-read the settings.
cancelKeepsGeometry(i) ==
    /\ win' = [win EXCEPT ![i] = CloseWindow(win[i])]
    /\ last' = [NoOp EXCEPT !.op = "cancel", !.inst = i,
                   !.events = <<"close">>]
    /\ UNCHANGED <<store, hooks, hist>>
    /\ UNCHANGED <<editorVars, styleVars>>

\* WindowSettings.cancel: widget.close(), then readSettings().
cancel(i) ==
    \E hookRaises \in BOOLEAN :
        LET r == ReadEffect(store[App(i)], i, hooks[i].restore, hookRaises)
        IN /\ win' = [win EXCEPT ![i] = [size |-> r.size, pos |-> r.pos,
                                          closed |-> TRUE]]
           /\ last' = [NoOp EXCEPT !.op = "cancel", !.inst = i,
                          !.events = <<"close", "read">>, !.calls = r.calls,
                          !.hookFailed = r.hookFailed]
           /\ UNCHANGED <<store, hooks, hist>>
           /\ UNCHANGED <<editorVars, styleVars>>

\* ------------------------------------------------------------- environment

\* The user shows, resizes and moves window i.
userMoveResize(i) ==
    \E s \in Sizes, p \in Positions :
        /\ win' = [win EXCEPT ![i] = [size |-> s, pos |-> p, closed |-> FALSE]]
        /\ last' = NoOp
        /\ UNCHANGED <<store, hooks, hist>>
        /\ UNCHANGED <<editorVars, styleVars>>

\* The store file is changed from outside the program: the state blob of
\* instance i's group is replaced by one that pickle did not write.
corruptState(i) ==
    \E b \in CorruptBlobs :
        /\ store' = [store EXCEPT ![App(i)] = setValue(@, StatePath(i), b)]
        /\ hist' = [hist EXCEPT ![i].tampered = TRUE]
        /\ last' = NoOp
        /\ UNCHANGED <<win, hooks>>
        /\ UNCHANGED <<editorVars, styleVars>>

\* ------------------------------------------------------------------ editor

\* MainWindow.__init__: self._maxNumRecentFiles = 4
MaxNumRecentFiles == 4

\* A path is <<directory, file name>>; two paths may share a file name.
Paths == {<<"a", n>> : n \in 1 .. NumNames} \cup {<<"b", 1>>}

\* None (no file yet) and "" (a cancelled file dialog)
NoPath == << >>

EmptyPath == <<"", 0>>

\* os.path.basename
basename(p) == p[2]

\* open(filePath).read()
FileText(p) == <<p>>

HiddenAction == [text |-> 0, data |-> NoPath, visible |-> FALSE]

\* What a handler of MainWindow did: failed (the path was no file), warned (a
\* warning box was shown), raised (the handler ended in an exception),
\* prompted and answer (the question box of closeEvent), accepted (the close
\* event was left accepted), wrote (the text was written to a file).
NoUi == [op |-> "none", failed |-> FALSE, warned |-> FALSE, raised |-> FALSE,
         prompted |-> FALSE, answer |-> "none", accepted |-> FALSE,
         wrote |-> FALSE]

EditorInit ==
    /\ filePath = NoPath
    /\ recentFiles = << >>
    /\ recentFileActions = [n \in 1 .. MaxNumRecentFiles |-> HiddenAction]
    /\ text = << >>
    /\ opened = << >>
    /\ modified = FALSE
    /\ ui = NoUi

\* Mutant: the path is inserted without removing its earlier occurrence.
RemoveNothing(list, p) == list

\* while filePath in list: list.remove(filePath)
RECURSIVE RemoveAll(_, _)
RemoveAll(list, p) ==
    IF list = << >> THEN << >>
    ELSE IF Head(list) = p THEN RemoveAll(Tail(list), p)
    ELSE <<Head(list)>> \o RemoveAll(Tail(list), p)

\* Mutant: the slice keeps one entry too many.
TruncateOneMore(list, n) ==
    SubSeq(list, 1, IF Len(list) > n + 1 THEN n + 1 ELSE Len(list))

\* list[:n]
Truncate(list, n) == SubSeq(list, 1, IF Len(list) > n THEN n ELSE Len(list))

\* The list _updateCurrentFile leaves in self._recentFiles.
RecordOpened(list, p) ==
    LET inserted == <<p>> \o RemoveAll(list, p)
    IN IF Len(inserted) > MaxNumRecentFiles
       THEN Truncate(inserted, MaxNumRecentFiles)
       ELSE inserted

\* Mutant: every shown action gets the label of the first list entry.
UpdateRecentFileActionsFirstLabel(list, actions) ==
    [n \in DOMAIN actions |->
        IF n <= Len(list)
        THEN [text |-> basename(list[1]), data |-> list[n], visible |-> TRUE]
        ELSE actions[n]]

\* _updateRecentFileActions: the actions after both loops (n is 1-based,
\* the code's i and ii are n - 1).
UpdateRecentFileActions(list, actions) ==
    LET itEnd == IF Len(list) <= MaxNumRecentFiles
                 THEN Len(list) ELSE MaxNumRecentFiles
        shown == [n \in DOMAIN actions |->
                    IF n <= Len(list)
                    THEN [text |-> basename(list[n]), data |-> list[n],
                          visible |-> TRUE]
                    ELSE actions[n]]
    IN [n \in DOMAIN actions |->
          IF n - 1 > itEnd THEN [shown[n] EXCEPT !.visible = FALSE]
          ELSE shown[n]]

\* QMessageBox.warning(parent, title, text, ...) called with the arguments
\* args: the box is shown when parent, title and text are all given; with
\* fewer arguments the call is a TypeError.
WarningCall(args) ==
    IF Len(args) >= 3
    THEN [warned |-> TRUE, raised |-> FALSE]
    ELSE [warned |-> FALSE, raised |-> TRUE]

\* _loadFile(p); isfile: what os.path.isfile(p) answers. The path that is no
\* file is answered with QMessageBox.warning(self, message) and a return;
\* setPlainText resets the document's modified flag.
loadFile(p, isfile) ==
    IF ~isfile
    THEN LET w == WarningCall(<<"self", "Could not open file.">>)
         IN /\ ui' = [NoUi EXCEPT !.op = "loadFile", !.failed = TRUE,
                                  !.warned = w.warned, !.raised = w.raised]
            /\ UNCHANGED <<filePath, recentFiles, recentFileActions, text,
                           opened, modified>>
    ELSE /\ Len(opened) < MaxOpens
         /\ text' = FileText(p)
         /\ modified' = FALSE
         /\ filePath' = p
         /\ recentFiles' = RecordOpened(recentFiles, p)
         /\ recentFileActions' =
                UpdateRecentFileActions(RecordOpened(recentFiles, p),
                                        recentFileActions)
         /\ opened' = Append(opened, p)
         /\ ui' = [NoUi EXCEPT !.op = "loadFile"]

\* File > Open: the dialog returns a path, or "" when cancelled.
openFile ==
    \E p \in Paths \cup {EmptyPath}, isfile \in BOOLEAN :
        /\ p = EmptyPath => ~isfile
        /\ loadFile(p, isfile)
        /\ UNCHANGED <<settingsVars, styleVars>>

\* File > Open Recent: one of the visible actions is triggered.
openRecent ==
    \E n \in DOMAIN recentFileActions, isfile \in BOOLEAN :
        /\ recentFileActions[n].visible
        /\ loadFile(recentFileActions[n].data, isfile)
        /\ UNCHANGED <<settingsVars, styleVars>>

\* The window is on screen: its last close event, if any, was vetoed.
WindowOpen == ~(ui.op = "closeEvent" /\ ui.accepted)

\* The user types into the text edit.
editText ==
    /\ WindowOpen
    /\ Len(text) < MaxTextLen
    /\ text' = Append(text, <<"typed", Len(text) + 1>>)
    /\ modified' = TRUE
    /\ ui' = NoUi
    /\ UNCHANGED <<filePath, recentFiles, recentFileActions, opened>>
    /\ UNCHANGED <<settingsVars, styleVars>>

\* MainWindow.saveAs with the path dlg answered by the Save As dialog ("" when
\* it is cancelled): with a path, set _filePath and save(), which then writes
\* the file and clears the modified flag; without one, nothing.
SaveAsEffect(fp, mod, dlg) ==
    IF dlg # EmptyPath
    THEN [filePath |-> dlg, modified |-> FALSE, wrote |-> TRUE]
    ELSE [filePath |-> fp, modified |-> mod, wrote |-> FALSE]

\* MainWindow.save: saveAs() when there is no file path yet, else write the
\* text to the file and clear the modified flag.
SaveEffect(fp, mod, dlg) ==
    IF fp = NoPath
    THEN SaveAsEffect(fp, mod, dlg)
    ELSE [filePath |-> fp, modified |-> FALSE, wrote |-> TRUE]

\* File > Save
saveDocument ==
    \E dlg \in Paths \cup {EmptyPath} :
        LET r == SaveEffect(filePath, modified, dlg)
        IN /\ WindowOpen
           /\ filePath' = r.filePath
           /\ modified' = r.modified
           /\ ui' = [NoUi EXCEPT !.op = "save", !.wrote = r.wrote]
           /\ UNCHANGED <<recentFiles, recentFileActions, text, opened>>
           /\ UNCHANGED <<settingsVars, styleVars>>

\* File > Save As
saveAs ==
    \E dlg \in Paths \cup {EmptyPath} :
        LET r == SaveAsEffect(filePath, modified, dlg)
        IN /\ WindowOpen
           /\ filePath' = r.filePath
           /\ modified' = r.modified
           /\ ui' = [NoUi EXCEPT !.op = "saveAs", !.wrote = r.wrote]
           /\ UNCHANGED <<recentFiles, recentFileActions, text, opened>>
           /\ UNCHANGED <<settingsVars, styleVars>>

\* The buttons of the question box of closeEvent.
Answers == {"Save", "Discard", "Cancel"}

\* MainWindow.closeEvent: the event arrives accepted and stays so unless
\* event.ignore() is called. answer: the button of the question box; dlg: the
\* answer of the Save As dialog, should save() open it.
closeEvent ==
    \E answer \in Answers, dlg \in Paths \cup {EmptyPath} :
        /\ WindowOpen
        /\ IF ~modified
           THEN /\ ui' = [NoUi EXCEPT !.op = "closeEvent", !.accepted = TRUE]
                /\ UNCHANGED <<filePath, modified>>
           ELSE IF answer = "Save"
           THEN LET r == SaveEffect(filePath, modified, dlg)
                IN /\ filePath' = r.filePath
                   /\ modified' = r.modified
                   /\ ui' = [NoUi EXCEPT !.op = "closeEvent",
                                         !.prompted = TRUE, !.answer = answer,
                                         !.accepted = TRUE, !.wrote = r.wrote]
           ELSE /\ ui' = [NoUi EXCEPT !.op = "closeEvent", !.prompted = TRUE,
                                      !.answer = answer,
                                      !.accepted = (answer # "Cancel")]
                /\ UNCHANGED <<filePath, modified>>
        /\ UNCHANGED <<recentFiles, recentFileActions, text, opened>>
        /\ UNCHANGED <<settingsVars, styleVars>>

\* ------------------------------------------------------- style controller

\* The keys of ControllerWidget.widget_type_map: DefaultWidget,
\* PaletteWidget, PaintedWidget, QssWidget.
StyleNames == {"default", "palette", "painted", "qss"}

\* progressBar.setRange(0, 1000)
ProgressMinimum == 0

ProgressMaximum == 1000

\* The application's style when it starts: no style sheet, and the palette
\* that QApplication.style().standardPalette() returns.
StartStyle == [styleSheet |-> "", palette |-> "standard"]

\* cls.initGlobalStyle(): DefaultWidget's (PaintedWidget inherits it) clears
\* the style sheet and sets the standard palette; PaletteWidget's sets its
\* own palette; QssWidget's sets the sheet of sample.css and the standard
\* palette.
initGlobalStyle(type, a) ==
    CASE type = "palette" -> [a EXCEPT !.palette = "custom"]
      [] type = "qss" -> [styleSheet |-> "sample.css", palette |-> "standard"]
      [] OTHER -> [styleSheet |-> "", palette |-> "standard"]

\* cls.setGlobalStyle(): PaintedWidget's sets the sheet of sample.css, the
\* others inherit DefaultWidget's pass.
setGlobalStyle(type, a) ==
    IF type = "painted" THEN [a EXCEPT !.styleSheet = "sample.css"] ELSE a

\* widget.setInstanceStyle("error"): QssWidget's marks its widgets, the others
\* inherit DefaultWidget's pass.
setInstanceStyle(d) ==
    IF d.type = "qss" THEN [d EXCEPT !.error = TRUE] ELSE d

\* cls.init(): a widget of the class, its progress bar at 0 and its timer
\* started; initInstanceStyle() gets no "error".
NewWidget(type) ==
    [type |-> type, error |-> FALSE, value |-> ProgressMinimum, timer |-> TRUE]

\* QProgressBar.setValue(v) on a bar showing cur: a value outside the range
\* is not taken.
setProgressValue(cur, v) ==
    IF v < ProgressMinimum \/ v > ProgressMaximum THEN cur ELSE v

\* ControllerWidget.__init__: DefaultWidget.init() is the first demo widget.
StyleInit ==
    /\ app = initGlobalStyle("default", StartStyle)
    /\ demo = NewWidget("default")
    /\ click = "none"
    /\ applies = 0

\* The Apply button, with the style selected in the combo box.
onApplyClicked ==
    \E style \in StyleNames :
        /\ applies < MaxApplies
        /\ app' = initGlobalStyle(style, app)
        /\ demo' = NewWidget(style)
        /\ click' = "apply"
        /\ applies' = applies + 1
        /\ UNCHANGED <<settingsVars, editorVars>>

\* The Error button.
onErrorClicked ==
    /\ demo' = setInstanceStyle(demo)
    /\ click' = "error"
    /\ UNCHANGED <<app, applies>>
    /\ UNCHANGED <<settingsVars, editorVars>>

\* The Add button.
onAddClicked ==
    /\ app' = setGlobalStyle(demo.type, app)
    /\ click' = "add"
    /\ UNCHANGED <<demo, applies>>
    /\ UNCHANGED <<settingsVars, editorVars>>

\* Mutant: the timer is left running at the maximum.
advanceProgressBarNoStop ==
    LET curVal == demo.value
        maxVal == ProgressMaximum
        newVal == setProgressValue(curVal, (curVal + (maxVal - curVal) \div 10) + 9)
    IN /\ demo.timer
       /\ demo' = [demo EXCEPT !.value = newVal]
       /\ click' = "tick"
       /\ UNCHANGED <<app, applies>>
       /\ UNCHANGED <<settingsVars, editorVars>>

\* The timeout of the demo widget's timer: advanceProgressBar (the division
\* is Python 2's integer division).
advanceProgressBar ==
    LET curVal == demo.value
        maxVal == ProgressMaximum
        newVal == setProgressValue(curVal, (curVal + (maxVal - curVal) \div 10) + 9)
    IN /\ demo.timer
       /\ demo' = [demo EXCEPT !.value = newVal, !.timer = (newVal # 1000)]
       /\ click' = "tick"
       /\ UNCHANGED <<app, applies>>
       /\ UNCHANGED <<settingsVars, editorVars>>

\* ---------------------------------------------------------- specifications

\* The windows WindowSettings may be given: any of the two hooks may be absent.
HostKinds == [save : BOOLEAN, restore : BOOLEAN]

\* MainWindow has both hooks (saveState, restoreState).
MainWindowKind == [save |-> TRUE, restore |-> TRUE]

\* The instance whose operations Spec runs; the other ones are at rest.
Active == {1}

SettingsInit ==
    /\ store = [a \in Apps |-> EmptySettings]
    /\ win \in [Instances -> [size : Sizes, pos : Positions, closed : {FALSE}]]
    /\ \A i \in Instances \ Active :
           win[i] = [size |-> DefaultSize, pos |-> DefaultPos, closed |-> FALSE]
    /\ hooks \in [Instances -> HostKinds]
    /\ \A i \in Instances \ Active : hooks[i] = MainWindowKind
    /\ last = NoOp
    /\ hist = [i \in Instances |-> HistFresh("fresh")]

Init == SettingsInit /\ EditorInit /\ StyleInit

Step(i) ==
    \/ readSettings(i)
    \/ writeSettings(i)
    \/ clearSettings(i)
    \/ save(i)
    \/ restore(i)
    \/ cancel(i)
    \/ userMoveResize(i)
    \/ corruptState(i)

Next == \E i \in Active : Step(i)

\* WindowSettings with any host window.
Spec == Init /\ [][Next]_vars

\* MainWindow.initUi on a machine with no settings stored yet.
MainWindowInit ==
    /\ store = [a \in Apps |-> EmptySettings]
    /\ win = [i \in Instances |->
                [size |-> DefaultSize, pos |-> DefaultPos, closed |-> FALSE]]
    /\ hooks = [i \in Instances |-> MainWindowKind]
    /\ last = NoOp
    /\ hist = [i \in Instances |-> HistFresh("fresh")]

EditorNext == openFile \/ openRecent

EditorStart == MainWindowInit /\ EditorInit /\ StyleInit

\* The text editor's file actions.
EditorSpec == EditorStart /\ [][EditorNext]_vars

\* The editor's document: typing, saving and closing.
CloseNext == editText \/ saveDocument \/ saveAs \/ closeEvent

CloseSpec == EditorStart /\ [][CloseNext]_vars

\* The style controller and its demo widget; the running QTimer fires as
\* long as the event loop runs.
StyleNext ==
    onApplyClicked \/ onErrorClicked \/ onAddClicked \/ advanceProgressBar

StyleSpec ==
    EditorStart /\ [][StyleNext]_vars /\ WF_vars(advanceProgressBar)

\* A window that keeps no state of its own: neither hook.
PlainWindowKind == [save |-> FALSE, restore |-> FALSE]

\* Several WindowSettings objects at work on the stores: the two versions of
\* one tool have plain windows, the other tool's window is a MainWindow.
SharedInit ==
    /\ store = [a \in Apps |-> EmptySettings]
    /\ win = [i \in Instances |->
                 [size |-> DefaultSize, pos |-> DefaultPos, closed |-> FALSE]]
    /\ hooks = [i \in Instances |->
                   IF i = 3 THEN MainWindowKind ELSE PlainWindowKind]
    /\ last = NoOp
    /\ hist = [i \in Instances |-> HistFresh("fresh")]
    /\ EditorInit
    /\ StyleInit

\* Instance 1 writes and clears its key; the holders of the other keys write
\* and read theirs, and have their windows moved.
SharedNext ==
    \/ writeSettings(1)
    \/ clearSettings(1)
    \/ \E i \in Instances \ {1} :
          \/ writeSettings(i)
          \/ readSettings(i)
          \/ userMoveResize(i)

SharedSpec == SharedInit /\ [][SharedNext]_vars

\* ------------------------------------------------------------------ claims

\* Operation op of instance i ran last.
After(op, i) == last.op = op /\ last.inst = i

\* The store file of instance i and the state blob its readSettings sees.
File(i) == store[App(i)]

Blob(i) == value(File(i), StatePath(i), DefaultBlob)

\* No key of instance i's version group is in its store file.
NoRecord(i) == \A p \in DOMAIN File(i) : p[1] # toolVersion(i)

\* C1: a readSettings() that follows a writeSettings() with the same key, no
\* write or clear in between, leaves the window with exactly the size and
\* position written, whatever became of the state blob.
C1_GeometryRoundTrip ==
    \A i \in Instances :
        After("readSettings", i) /\ hist[i].status = "written"
            => win[i].size = hist[i].size /\ win[i].pos = hist[i].pos

\* C1 witness: a non-default geometry was written with a failing
\* serialization, the window was then moved, and the read (which failed on the
\* blob) brought the written geometry back.
C1_Witness ==
    /\ After("readSettings", 1)
    /\ hist[1].status = "written" /\ hist[1].ret = "false"
    /\ last.ret = "false"
    /\ hist[1].size = <<640, 480>> /\ hist[1].pos = <<0, 0>>
    /\ win[1].size = <<640, 480>> /\ win[1].pos = <<0, 0>>

\* C2: with no record stored for the key, readSettings() sets the size to
\* (400,200) and the position to (200,200).
C2_DefaultsWhenNoRecord ==
    \A i \in Instances :
        After("readSettings", i) /\ NoRecord(i)
            => win[i].size = <<400, 200>> /\ win[i].pos = <<200, 200>>

\* C2 witness: a read on a store that never held a record.
C2_Witness ==
    /\ After("readSettings", 1)
    /\ NoRecord(1) /\ hist[1].status = "fresh"
    /\ win[1].size = <<400, 200>> /\ win[1].pos = <<200, 200>>

\* C3: after writes, clearSettings() followed by readSettings() with the same
\* key applies the default geometry, and hands the window nothing of what was
\* written: restoreState gets at most the empty default state.
C3_ClearThenReadDefaults ==
    \A i \in Instances :
        After("readSettings", i) /\ hist[i].status = "cleared"
            => /\ win[i].size = <<400, 200>>
               /\ win[i].pos = <<200, 200>>
               /\ last.calls \in {<< >>, <<EmptyState>>}
               /\ SizePath(i) \notin DOMAIN File(i)
               /\ PosPath(i) \notin DOMAIN File(i)

\* C3 witness: a non-default geometry and a non-empty state had been written
\* with success before the clear; the read applied the defaults and handed
\* the window the empty state.
C3_Witness ==
    /\ After("readSettings", 1)
    /\ hist[1].status = "cleared" /\ hist[1].ret = "true"
    /\ hist[1].size = <<640, 480>> /\ hist[1].pos = <<0, 0>>
    /\ hist[1].saved.v # EmptyState
    /\ last.calls = <<EmptyState>>
    /\ win[1].size = <<400, 200>> /\ win[1].pos = <<200, 200>>

\* C4 as claimed: whenever the stored state blob cannot be deserialized, or
\* the restoreState hook fails on it, readSettings() returns false without
\* raising, with the stored (or default) geometry applied.
C4_AsClaimed ==
    \A i \in Instances :
        /\ After("readSettings", i)
        /\ hooks[i].restore
        /\ StatePath(i) \in DOMAIN File(i)
        /\ ~loads(Blob(i)).ok \/ last.hookFailed
        => /\ last.ret = "false"
           /\ ~last.raised
           /\ win[i].size = value(File(i), SizePath(i), <<400, 200>>)
           /\ win[i].pos = value(File(i), PosPath(i), <<200, 200>>)

\* C4 amended: for a window with a restoreState hook, a stored blob that is
\* not empty and cannot be deserialized, or a hook that fails, makes
\* readSettings() return false without raising; an empty stored blob is
\* skipped: the hook is not called and readSettings() returns true. Either
\* way the stored (or default) geometry is applied.
C4_DeserializeFailure ==
    \A i \in Instances :
        After("readSettings", i) /\ hooks[i].restore
        => /\ (Blob(i) # << >> /\ ~loads(Blob(i)).ok) \/ last.hookFailed
                => last.ret = "false"
           /\ Blob(i) = << >> => last.ret = "true" /\ last.calls = << >>
           /\ ~last.raised
           /\ win[i].size = value(File(i), SizePath(i), <<400, 200>>)
           /\ win[i].pos = value(File(i), PosPath(i), <<200, 200>>)

\* C4 witness: a truncated blob is stored beside a non-default geometry; the
\* read returned false and the window has the stored geometry.
C4_Witness ==
    /\ After("readSettings", 1) /\ hooks[1].restore
    /\ Blob(1) = <<MARK, DICT>>
    /\ last.ret = "false" /\ ~last.raised
    /\ SizePath(1) \in DOMAIN File(1) /\ File(1)[SizePath(1)] = <<640, 480>>
    /\ win[1].size = <<640, 480>> /\ win[1].pos = <<0, 0>>

\* C5: a writeSettings() whose serialization of saveState() fails returns
\* false without raising, stores the window's size and position all the same,
\* and leaves the stored state blob as it was; one whose serialization
\* succeeds returns true and stores size, position and the blob.
C5_SerializeFailure ==
    [][\A i \in Instances :
         last'.op = "writeSettings" /\ last'.inst = i /\ hooks[i].save
         => /\ ~last'.raised
            /\ SizePath(i) \in DOMAIN store'[App(i)]
            /\ PosPath(i) \in DOMAIN store'[App(i)]
            /\ store'[App(i)][SizePath(i)] = win[i].size
            /\ store'[App(i)][PosPath(i)] = win[i].pos
            /\ last'.saved.kind \in {"unpicklable", "raise"}
                 => /\ last'.ret = "false"
                    /\ (StatePath(i) \in DOMAIN store'[App(i)])
                          = (StatePath(i) \in DOMAIN store[App(i)])
                    /\ StatePath(i) \in DOMAIN store[App(i)]
                          => store'[App(i)][StatePath(i)]
                                = store[App(i)][StatePath(i)]
            /\ last'.saved.kind = "value"
                 => /\ last'.ret = "true"
                    /\ StatePath(i) \in DOMAIN store'[App(i)]
                    /\ loads(store'[App(i)][StatePath(i)])
                          = [ok |-> TRUE, value |-> last'.saved.v]
      ]_vars

\* C5 witness: saveState() returned something pickle refuses; the write
\* returned false, the non-default geometry is stored and the blob of an
\* earlier successful write is still there.
C5_Witness ==
    /\ After("writeSettings", 1) /\ hooks[1].save
    /\ last.saved.kind = "unpicklable" /\ last.ret = "false"
    /\ SizePath(1) \in DOMAIN File(1) /\ File(1)[SizePath(1)] = <<640, 480>>
    /\ PosPath(1) \in DOMAIN File(1) /\ File(1)[PosPath(1)] = <<0, 0>>
    /\ StatePath(1) \in DOMAIN File(1)
    /\ loads(File(1)[StatePath(1)]).ok
    /\ loads(File(1)[StatePath(1)]).value # EmptyState

\* C6 as claimed: after a writeSettings() that returned true, the next
\* readSettings() with the same key calls restoreState exactly once, with the
\* value saveState() returned at that write, and returns true.
C6_AsClaimed ==
    \A i \in Instances :
        /\ After("readSettings", i)
        /\ hooks[i].restore
        /\ hist[i].status = "written" /\ hist[i].ret = "true"
        /\ hist[i].saved.kind = "value" /\ ~hist[i].tampered
        => last.calls = <<hist[i].saved.v>> /\ last.ret = "true"

\* C6 amended: after a writeSettings() that returned true, the next
\* readSettings() with the same key calls restoreState exactly once, with the
\* value saveState() returned at that write; it returns true if the hook
\* returns and false if the hook raises.
C6_StateRoundTrip ==
    \A i \in Instances :
        /\ After("readSettings", i)
        /\ hooks[i].restore
        /\ hist[i].status = "written" /\ hist[i].ret = "true"
        /\ hist[i].saved.kind = "value" /\ ~hist[i].tampered
        => /\ last.calls = <<hist[i].saved.v>>
           /\ ~last.raised
           /\ last.ret = Bool(~last.hookFailed)

\* C6 witness: a non-empty state was written with success and the read
\* handed exactly that state to restoreState and returned true.
C6_Witness ==
    /\ After("readSettings", 1) /\ hooks[1].restore
    /\ hist[1].status = "written" /\ hist[1].ret = "true"
    /\ hist[1].saved.kind = "value" /\ hist[1].saved.v # EmptyState
    /\ ~hist[1].tampered
    /\ last.calls = <<hist[1].saved.v>> /\ last.ret = "true"

\* C9: for a host window with neither hook, writeSettings() stores size and
\* position and never touches the state blob, readSettings() applies the
\* geometry and never looks at the blob (restoreState is not called, whatever
\* the blob is), and both return true.
C9_NoHooks ==
    [][\A i \in Instances :
         ~hooks[i].save /\ ~hooks[i].restore /\ last'.inst = i
         => /\ last'.op = "writeSettings"
                 => /\ last'.ret = "true" /\ ~last'.raised
                    /\ SizePath(i) \in DOMAIN store'[App(i)]
                    /\ PosPath(i) \in DOMAIN store'[App(i)]
                    /\ store'[App(i)][SizePath(i)] = win[i].size
                    /\ store'[App(i)][PosPath(i)] = win[i].pos
                    /\ (StatePath(i) \in DOMAIN store'[App(i)])
                          = (StatePath(i) \in DOMAIN store[App(i)])
                    /\ StatePath(i) \in DOMAIN store[App(i)]
                          => store'[App(i)][StatePath(i)]
                                = store[App(i)][StatePath(i)]
            /\ last'.op = "readSettings"
                 => /\ last'.ret = "true" /\ ~last'.raised
                    /\ last'.calls = << >>
                    /\ win'[i].size
                          = value(store[App(i)], SizePath(i), <<400, 200>>)
                    /\ win'[i].pos
                          = value(store[App(i)], PosPath(i), <<200, 200>>)
                    /\ store' = store
      ]_vars

\* C9 witness: a window without hooks read a store whose blob is truncated:
\* the read returned true, called nothing and applied the stored geometry.
C9_Witness ==
    /\ After("readSettings", 1)
    /\ ~hooks[1].save /\ ~hooks[1].restore
    /\ Blob(1) = <<MARK, DICT>>
    /\ last.ret = "true" /\ last.calls = << >>
    /\ SizePath(1) \in DOMAIN File(1) /\ File(1)[SizePath(1)] = <<640, 480>>
    /\ win[1].size = <<640, 480>>

OpenedPaths == {opened[n] : n \in DOMAIN opened}

LastOpen(p) == CHOOSE n \in DOMAIN opened :
                   opened[n] = p /\ \A m \in DOMAIN opened : opened[m] = p => m <= n

\* Distinct paths opened after the last open of p.
OpenedSince(p) == {q \in OpenedPaths : LastOpen(q) > LastOpen(p)}

\* C7: after any successful opens the recent-files list holds no path twice
\* and starts with the path opened last, which is the current file path;
\* opening P, P, Q leaves the list Q, P.
C7_NoDuplicateFrontLast ==
    /\ \A a, b \in DOMAIN recentFiles :
           a # b => recentFiles[a] # recentFiles[b]
    /\ opened # << >>
          => /\ recentFiles # << >>
             /\ recentFiles[1] = opened[Len(opened)]
             /\ filePath = opened[Len(opened)]
    /\ Len(opened) = 3 /\ opened[1] = opened[2] /\ opened[3] # opened[1]
          => recentFiles = <<opened[3], opened[1]>>

\* C7 witness: P, P, Q were opened and the list is Q, P.
C7_Witness ==
    /\ opened = << <<"a", 1>>, <<"a", 1>>, <<"a", 2>> >>
    /\ recentFiles = << <<"a", 2>>, <<"a", 1>> >>
    /\ filePath = <<"a", 2>>

\* C8: the recent-files list is exactly the min(4, number of distinct paths
\* opened) most recently opened distinct paths, most recent first; it never
\* has more than 4 entries, and 5 distinct opens leave the last 4.
C8_MostRecentDistinct ==
    /\ Len(recentFiles) <= 4
    /\ Len(recentFiles)
          = (IF Cardinality(OpenedPaths) < 4 THEN Cardinality(OpenedPaths) ELSE 4)
    /\ \A n \in DOMAIN recentFiles :
          /\ recentFiles[n] \in OpenedPaths
          /\ Cardinality(OpenedSince(recentFiles[n])) = n - 1
    /\ Len(opened) = 5 /\ Cardinality(OpenedPaths) = 5
          => recentFiles = <<opened[5], opened[4], opened[3], opened[2]>>

\* C8 witness: five distinct paths were opened; the list holds the last four,
\* most recent first, and the first one is gone.
C8_Witness ==
    /\ opened = << <<"a", 1>>, <<"a", 2>>, <<"b", 1>>, <<"a", 3>>, <<"a", 4>> >>
    /\ recentFiles = << <<"a", 4>>, <<"a", 3>>, <<"b", 1>>, <<"a", 2>> >>

\* Operations of WindowSettings.
Operations ==
    {"readSettings", "writeSettings", "clearSettings", "save", "restore",
     "cancel"}

\* C11: restore() hands the window the empty state via restoreState, then
\* closes the window, then clears the settings, in that order; when it is
\* over the window is closed and the store holds no record for the key (so
\* that, by C2, the next readSettings() applies the default geometry).
C11_RestoreHandsClosesClears ==
    \A i \in Instances :
        After("restore", i)
            => /\ last.events = <<"restoreState", "close", "clear">>
               /\ last.calls = <<EmptyState>>
               /\ ~last.raised
               /\ win[i].closed
               /\ NoRecord(i)

\* C12 as claimed: after cancel() the window has the size and position of the
\* last writeSettings() (the defaults when nothing was ever written), and the
\* store is what it was before the call.
C12_AsClaimed ==
    [][\A i \in Instances :
         last'.op = "cancel" /\ last'.inst = i
         => /\ store' = store
            /\ IF hist[i].ret # "none"
               THEN win'[i].size = hist[i].size /\ win'[i].pos = hist[i].pos
               ELSE win'[i].size = <<400, 200>> /\ win'[i].pos = <<200, 200>>
      ]_vars

\* C12: cancel() closes the window and then re-reads the settings: afterwards
\* the window's size and position are those stored for the key, which are
\* those of the last writeSettings() when no clear followed it and the
\* defaults when nothing was written or a clear came after the last write,
\* whatever geometry changes were made since; the store is the same as
\* before the call.
C12_CancelRereads ==
    [][\A i \in Instances :
         last'.op = "cancel" /\ last'.inst = i
         => /\ store' = store
            /\ last'.events = <<"close", "read">>
            /\ ~last'.raised
            /\ win'[i].closed
            /\ win'[i].size = value(store[App(i)], SizePath(i), <<400, 200>>)
            /\ win'[i].pos = value(store[App(i)], PosPath(i), <<200, 200>>)
            /\ hist[i].status = "written"
                  => win'[i].size = hist[i].size /\ win'[i].pos = hist[i].pos
            /\ hist[i].status \in {"fresh", "cleared"}
                  => win'[i].size = <<400, 200>> /\ win'[i].pos = <<200, 200>>
      ]_vars

\* C12 witness: a non-default geometry was written, the window was then given
\* another geometry, and cancel() closed it and brought the written one back.
C12_Witness ==
    /\ After("cancel", 1)
    /\ hist[1].status = "written"
    /\ hist[1].size = <<640, 480>> /\ hist[1].pos = <<0, 0>>
    /\ win[1].size = <<640, 480>> /\ win[1].pos = <<0, 0>>
    /\ win[1].closed
    /\ last.events = <<"close", "read">>

\* The state blob in the record of instance i was put there by the program.
HasOwnBlob(i) == StatePath(i) \in DOMAIN File(i) /\ ~hist[i].tampered

\* C13 as claimed: in every reachable state of the store the geometry and the
\* state blob recorded for a key come from the same writeSettings() call: where
\* the geometry is that of the last write, the blob is the one that write
\* serialized.
C13_AsClaimed ==
    \A i \in Instances :
        hist[i].status = "written" /\ HasOwnBlob(i)
            => /\ hist[i].saved.kind = "value"
               /\ loads(File(i)[StatePath(i)]) = [ok |-> TRUE, value |-> hist[i].saved.v]

\* C13: the geometry recorded for a key is that of the last writeSettings()
\* call, and the state blob recorded is from the same call whenever that call
\* serialized the window's state; a call that could not serialize it (or
\* whose window has no saveState hook) stores its geometry alone, beside
\* whatever blob an earlier call left.
C13_SameWriteWhenSerialized ==
    \A i \in Instances :
        hist[i].status = "written"
            => /\ SizePath(i) \in DOMAIN File(i)
               /\ PosPath(i) \in DOMAIN File(i)
               /\ File(i)[SizePath(i)] = hist[i].size
               /\ File(i)[PosPath(i)] = hist[i].pos
               /\ hist[i].saved.kind = "value"
                     => /\ hist[i].ret = "true"
                        /\ StatePath(i) \in DOMAIN File(i)
                        /\ ~hist[i].tampered
                              => loads(File(i)[StatePath(i)])
                                    = [ok |-> TRUE, value |-> hist[i].saved.v]

\* C13 witness: one call stored a non-default geometry and a non-empty state.
C13_Witness ==
    /\ After("writeSettings", 1)
    /\ hist[1].status = "written" /\ hist[1].ret = "true"
    /\ hist[1].saved.kind = "value" /\ hist[1].saved.v # EmptyState
    /\ HasOwnBlob(1)
    /\ File(1)[SizePath(1)] = <<640, 480>> /\ File(1)[PosPath(1)] = <<0, 0>>
    /\ loads(File(1)[StatePath(1)]).value = hist[1].saved.v

\* C14: no operation of WindowSettings raises an error to its caller,
\* whatever the stored blob is, whether or not the window has the hooks and
\* whether or not the hooks fail.
C14_NoOperationRaises ==
    last.op \in Operations => ~last.raised

\* The record of instance j's key in the store file s: the entries of its
\* version group.
Record(s, j) == [p \in {q \in DOMAIN s : q[1] = toolVersion(j)} |-> s[p]]

\* C16 as claimed: clearSettings() deletes the record of its own key and
\* leaves the record of every other key as it was, another version of the
\* same company and tool included.
C16_AsClaimed ==
    [][\A i \in Instances :
         last'.op = "clearSettings" /\ last'.inst = i
         => /\ Record(store'[App(i)], i) = EmptySettings
            /\ \A j \in Instances \ {i} :
                  Record(store'[App(j)], j) = Record(store[App(j)], j)
      ]_vars

\* What clearSettings() does: it deletes every record stored for its company
\* and tool, those of all versions; the records of another company or tool
\* are unchanged, and a readSettings() under such a key still applies the
\* geometry written there.
C16_ClearWipesTool ==
    [][\A i \in Instances :
         /\ last'.op = "clearSettings" /\ last'.inst = i
            => /\ store'[App(i)] = EmptySettings
               /\ \A j \in Instances :
                     IF App(j) = App(i)
                     THEN Record(store'[App(j)], j) = EmptySettings
                     ELSE /\ store'[App(j)] = store[App(j)]
                          /\ Record(store'[App(j)], j) = Record(store[App(j)], j)
                          /\ hist'[j] = hist[j]
         /\ last'.op = "readSettings" /\ last'.inst = i
              /\ hist[i].status = "written"
            => /\ win'[i].size = hist[i].size /\ win'[i].pos = hist[i].pos
               /\ win'[i].size = store[App(i)][SizePath(i)]
               /\ win'[i].pos = store[App(i)][PosPath(i)]
      ]_vars

\* Such a clear: versions 0.0.1 and 0.0.2 of one tool and another tool had
\* written their records; the clear under version 0.0.1 removed the records
\* of both versions and left the other tool's record, geometry and blob.
C16_Witness ==
    /\ After("clearSettings", 1)
    /\ hist[1].status = "cleared" /\ hist[1].ret = "true"
    /\ hist[2].status = "unknown"
    /\ store[App(1)] = EmptySettings
    /\ hist[3].status = "written" /\ hist[3].ret = "true"
    /\ Record(store[App(3)], 3)
          = setValue(setValue(setValue(EmptySettings, SizePath(3), <<640, 480>>),
                              PosPath(3), <<0, 0>>),
                     StatePath(3), dumps(hist[3].saved.v))

\* C15: opening a path that is not an existing file (the empty path of a
\* cancelled Open dialog, a recent entry whose file was removed) shows a
\* warning and aborts: the editor text, the current file path, the
\* recent-files list and the recent-file menu actions are unchanged.
C15_WarnsAndAborts ==
    [][ui'.op = "loadFile" /\ ui'.failed
         => /\ ui'.warned
            /\ ~ui'.raised
            /\ text' = text
            /\ filePath' = filePath
            /\ recentFiles' = recentFiles
            /\ recentFileActions' = recentFileActions
      ]_vars

\* What the failed open leaves alone: the text, the file path, the list and
\* the menu actions.
LoadFailureFrame ==
    [][ui'.op = "loadFile" /\ ui'.failed
         => /\ text' = text
            /\ filePath' = filePath
            /\ recentFiles' = recentFiles
            /\ recentFileActions' = recentFileActions
            /\ modified' = modified
      ]_vars

\* C17: after any sequence of file opens, recent-file menu action i is
\* visible exactly when i is less than the length of the recent-files list
\* (n = i + 1 at most the length); a visible action carries the full path of
\* list entry i as payload and its basename as label, so no visible action
\* has a path that is not in the list; the list has at most as many entries
\* as there are menu actions.
C17_ActionsMirrorList ==
    /\ Len(recentFiles) <= Len(recentFileActions)
    /\ Len(recentFileActions) = 4
    /\ \A n \in DOMAIN recentFileActions :
          /\ recentFileActions[n].visible <=> n <= Len(recentFiles)
          /\ recentFileActions[n].visible
                => /\ recentFileActions[n].data = recentFiles[n]
                   /\ recentFileActions[n].text = recentFiles[n][2]

\* C17 witness: two files of the same name in two directories were opened:
\* two actions are visible, with the same label and each its own path, and the
\* other two are hidden.
C17_Witness ==
    /\ recentFiles = << <<"b", 1>>, <<"a", 1>> >>
    /\ recentFileActions[1] = [text |-> 1, data |-> <<"b", 1>>, visible |-> TRUE]
    /\ recentFileActions[2] = [text |-> 1, data |-> <<"a", 1>>, visible |-> TRUE]
    /\ ~recentFileActions[3].visible
    /\ ~recentFileActions[4].visible

\* C18: a close request on a window whose document is modified is accepted
\* only if the user answered Discard, or answered Save and the text was
\* written to a file (modified flag cleared); Cancel vetoes the close; an
\* unmodified document closes without a prompt. The window never closes with
\* unsaved changes after the user chose Save.
C18_CloseKeepsChanges ==
    [][ui'.op = "closeEvent"
         => /\ modified /\ ui'.accepted
                => \/ ui'.answer = "Discard"
                   \/ ui'.answer = "Save" /\ ui'.wrote /\ ~modified'
            /\ modified /\ ui'.answer = "Cancel" => ~ui'.accepted
            /\ ~modified => ui'.accepted /\ ~ui'.prompted
            /\ ui'.answer = "Save" /\ ui'.accepted => ~modified'
      ]_vars

\* C19: after Apply in the style controller the application-wide style (the
\* global style sheet and the global palette) is determined by the style
\* selected at that Apply alone, whatever was applied and whatever Add or
\* Error clicks happened before: it is then the style that Apply of the same
\* style gives as the first click of a run.
C19_ApplyAloneDeterminesStyle ==
    click = "apply" => app = initGlobalStyle(demo.type, StartStyle)

\* What Apply determines: the palette always, and the style sheet for every
\* style but palette, whose Apply leaves the sheet that was there.
ApplyDeterminesPalette ==
    click = "apply"
        => /\ app.palette = (IF demo.type = "palette" THEN "custom" ELSE "standard")
           /\ demo.type = "qss" => app.styleSheet = "sample.css"
           /\ demo.type \in {"default", "painted"} => app.styleSheet = ""

\* C20: starting from value 0 with range 0..1000, every timer tick of
\* advanceProgressBar sets the value to cur + (1000 - cur) div 10 + 9; the
\* value strictly increases, never exceeds 1000, reaches exactly 1000 after
\* finitely many ticks, and the timer is stopped at that tick so that no
\* further tick occurs.
C20_ProgressReachesMaximum ==
    /\ [][click' = "tick"
            => /\ demo.timer /\ demo.value < 1000
               /\ demo'.value = demo.value + (1000 - demo.value) \div 10 + 9
               /\ demo'.value > demo.value
               /\ demo'.value <= 1000
               /\ demo'.timer <=> demo'.value # 1000
       ]_vars
    /\ [](/\ demo.value \in 0 .. 1000
          /\ demo.timer <=> demo.value # 1000
          /\ ~demo.timer => ~ENABLED advanceProgressBar)
    /\ <>[](demo.value = 1000 /\ ~demo.timer)

\* C20 witness: the tick that reached 1000 and stopped the timer.
C20_Witness ==
    /\ click = "tick"
    /\ demo.value = 1000
    /\ ~demo.timer

====
